---- MODULE Spec2Model ----
(***************************************************************************)
(* A model of app.py: a workbook driver that expands a worksheet template  *)
(* once per argument set, executes the #call / #output directives of the   *)
(* marker column against boto3 clients and writes extracted values back.   *)
(*                                                                         *)
(* Text is modelled as a sequence of one-character strings, so that        *)
(* prefix tests, replacement and case conversion are computed character    *)
(* by character as Python does.  A worksheet is a sparse map from          *)
(* <<row, column>> to cell value (cells that hold None are absent).        *)
(***************************************************************************)
EXTENDS Naturals, Integers, Sequences, FiniteSets, TLC

\* ------------------------------------------------------------------ bounds
\* argument sets (control-sheet rows) read in one run
MaxRows == 3
\* placeholder cells offered to resolve_placeholders in the function checks
MaxCells == 2
\* the largest number of replicas copy_form is asked for on its own
MaxCount == 2
\* the largest number of rows of a marker column find_form is given on its own
MaxMarkers == 3
\* the longest of the enumerated action names
MaxName == 3

\* ------------------------------------------------------------ text literals
None == <<"None">>

s_top == <<"%","t","o","p">>
s_bottom == <<"%","b","o","t","t","o","m">>
s_left == <<"%","l","e","f","t">>
s_right == <<"%","r","i","g","h","t">>
s_call == <<"#","c","a","l","l">>
s_output == <<"#","o","u","t","p","u","t">>
s_in == <<"#","#">>
s_param == <<"#","#","#">>
s_out == <<"#","#","#","#">>
s_na == <<"=","N","A","(",")">>
FORMAT_GENERAL == <<"G","e","n","e","r","a","l">>
FORMAT_TEXT == <<"@">>

UpperAlpha == <<"A","B","C","D","E","F","G","H","I","J","K","L","M",
                "N","O","P","Q","R","S","T","U","V","W","X","Y","Z">>
LowerAlpha == <<"a","b","c","d","e","f","g","h","i","j","k","l","m",
                "n","o","p","q","r","s","t","u","v","w","x","y","z">>
DigitChars == <<"0","1","2","3","4","5","6","7","8","9">>

Range(s) == {s[i] : i \in DOMAIN s}

IsUpper(c) == c \in Range(UpperAlpha)
IsDigit(c) == c \in Range(DigitChars)

\* str.lower(), one character
LowerChar(c) ==
    IF IsUpper(c) THEN LowerAlpha[CHOOSE i \in 1..26 : UpperAlpha[i] = c] ELSE c

Lower(s) == [i \in DOMAIN s |-> LowerChar(s[i])]

\* str(i) for a natural number
RECURSIVE IntStr(_)
IntStr(n) ==
    IF n < 10 THEN <<DigitChars[n + 1]>>
    ELSE IntStr(n \div 10) \o <<DigitChars[(n % 10) + 1]>>

\* str.startswith
StartsWith(s, p) == Len(s) >= Len(p) /\ SubSeq(s, 1, Len(p)) = p

\* x in s, for a one-character x
Contains(s, c) == \E i \in DOMAIN s : s[i] = c

\* str.count, for a one-character symbol
RECURSIVE Count(_, _)
Count(s, c) ==
    IF s = <<>> THEN 0
    ELSE (IF Head(s) = c THEN 1 ELSE 0) + Count(Tail(s), c)

\* str.replace(old, new): leftmost, non-overlapping occurrences
RECURSIVE Replace(_, _, _)
Replace(s, old, new) ==
    IF Len(s) < Len(old) \/ old = <<>> THEN s
    ELSE IF SubSeq(s, 1, Len(old)) = old
         THEN new \o Replace(SubSeq(s, Len(old) + 1, Len(s)), old, new)
         ELSE <<Head(s)>> \o Replace(Tail(s), old, new)

\* ------------------------------------------------ to_snake, is_safe_action
\* upper_case.sub(r'_\1', camel)
RECURSIVE UnderscoreUpper(_)
UnderscoreUpper(s) ==
    IF s = <<>> THEN <<>>
    ELSE (IF IsUpper(Head(s)) THEN <<"_", Head(s)>> ELSE <<Head(s)>>)
         \o UnderscoreUpper(Tail(s))

to_snake(camel) ==
    LET u == UnderscoreUpper(camel)
    IN  Lower(SubSeq(u, 2, Len(u)))

s_Get == <<"G","e","t">>
s_Describe == <<"D","e","s","c","r","i","b","e">>
s_List == <<"L","i","s","t">>

\* a filter that lets every name beginning with "De" through
is_safe_action_De(action_name) ==
    \/ StartsWith(action_name, s_Get)
    \/ StartsWith(action_name, <<"D", "e">>)
    \/ StartsWith(action_name, s_List)

\* a filter that compares the prefixes without regard to case
is_safe_action_any_case(action_name) ==
    \/ StartsWith(Lower(action_name), Lower(s_Get))
    \/ StartsWith(Lower(action_name), Lower(s_Describe))
    \/ StartsWith(Lower(action_name), Lower(s_List))

is_safe_action(action_name) ==
    \/ StartsWith(action_name, s_Get)
    \/ StartsWith(action_name, s_Describe)
    \/ StartsWith(action_name, s_List)

\* ------------------------------------------------------------- worksheets
\* A worksheet: val maps the coordinates of the cells whose value is not
\* None to that value; sty maps the coordinates of the cells that have a
\* style (has_style) to [font, number_format].
EmptyMap == [x \in {} |-> None]

Worksheet(val, sty) == [val |-> val, sty |-> sty]

\* cell.value
Value(ws, r, c) ==
    IF <<r, c>> \in DOMAIN ws.val THEN ws.val[<<r, c>>] ELSE None

DefaultStyle == [font |-> "plain", number_format |-> FORMAT_GENERAL]

\* cell._style
Style(ws, r, c) ==
    IF <<r, c>> \in DOMAIN ws.sty THEN ws.sty[<<r, c>>] ELSE DefaultStyle

MapPut(m, k, v, dflt) ==
    IF v = dflt
    THEN [x \in DOMAIN m \ {k} |-> m[x]]
    ELSE [x \in DOMAIN m \cup {k} |-> IF x = k THEN v ELSE m[x]]

\* cell.value = v
SetValue(ws, r, c, v) == [ws EXCEPT !.val = MapPut(ws.val, <<r, c>>, v, None)]

\* cell._style = st
SetStyle(ws, r, c, st) ==
    [ws EXCEPT !.sty = MapPut(ws.sty, <<r, c>>, st, DefaultStyle)]

Max(S) == IF S = {} THEN 0 ELSE CHOOSE x \in S : \A y \in S : y <= x

\* ws.max_row / ws.max_column, over the cells that hold a value: the cells
\* openpyxl keeps beyond them are all None and match no symbol
max_row(ws) == Max({rc[1] : rc \in DOMAIN ws.val})
max_column(ws) == Max({rc[2] : rc \in DOMAIN ws.val})

\* the column of the first cell of row r, from column c on, whose value is
\* symbol; 0 when the scan passes max_column (the code raises)
find_column_symbol(ws, symbol, r, c) ==
    LET hits == {k \in c..max_column(ws) : Value(ws, r, k) = symbol}
    IN  IF hits = {} THEN 0 ELSE CHOOSE k \in hits : \A j \in hits : k <= j

\* the column after the symbol; 0 when the symbol is not found
find_next_cell(ws, symbol, r, c) ==
    LET k == find_column_symbol(ws, symbol, r, c)
    IN  IF k = 0 THEN 0 ELSE k + 1

\* ------------------------------------------------------------- find_form
\* The scan of the marker column from row r on, with the values top,
\* left and right bound so far (0: not bound yet).
RECURSIVE FindFormFrom(_, _, _, _, _)
FindFormFrom(ws, r, top, left, right) ==
    IF r > max_row(ws)
    THEN [err |-> IF top = 0 THEN "top_not_found" ELSE "bottom_not_found",
          top |-> 0, bottom |-> 0, left |-> 0, right |-> 0]
    ELSE IF Value(ws, r, 1) = s_top
    THEN LET l == find_column_symbol(ws, s_left, r, 1)
             rt == IF l = 0 THEN 0 ELSE find_column_symbol(ws, s_right, r, l)
         IN  IF l = 0 \/ rt = 0
             THEN [err |-> "symbol_not_found",
                   top |-> 0, bottom |-> 0, left |-> 0, right |-> 0]
             ELSE FindFormFrom(ws, r + 1, r, l, rt)
    ELSE IF Value(ws, r, 1) = s_bottom
    THEN \* return top, bottom, left, right: left is unbound when no %top
         \* row came first
         IF top = 0
         THEN [err |-> "unbound_local",
               top |-> 0, bottom |-> 0, left |-> 0, right |-> 0]
         ELSE [err |-> "ok",
               top |-> top, bottom |-> r, left |-> left, right |-> right]
    ELSE FindFormFrom(ws, r + 1, top, left, right)

find_form(ws) == FindFormFrom(ws, 1, 0, 0, 0)

\* ------------------------------------------------------------- copy_form
\* cell.data_type == 'f': a string of more than one character that starts
\* with "="
IsFormula(v) == v # None /\ Len(v) > 1 /\ v[1] = "="

\* column letters <-> column number (openpyxl.utils)
RECURSIVE get_column_letter(_)
get_column_letter(n) ==
    IF n <= 26 THEN <<UpperAlpha[n]>>
    ELSE get_column_letter((n - 1) \div 26) \o <<UpperAlpha[((n - 1) % 26) + 1]>>

RECURSIVE column_index_from_string(_)
column_index_from_string(s) ==
    IF s = <<>> THEN 0
    ELSE 26 * column_index_from_string(SubSeq(s, 1, Len(s) - 1))
         + (CHOOSE i \in 1..26 : UpperAlpha[i] = s[Len(s)])

\* Translator(formula, origin).translate_formula(dest), for a destination in
\* the same row dcol columns to the right: a formula that is one relative
\* reference, "=" letters digits, has its column moved by dcol; a formula
\* with no cell reference is returned as it is.
translate_formula(v, dcol) ==
    LET body == Tail(v)
        nl == Max({k \in 0..Len(body) : \A i \in 1..k : IsUpper(body[i])})
        letters == SubSeq(body, 1, nl)
        rest == SubSeq(body, nl + 1, Len(body))
    IN  IF nl > 0 /\ rest # <<>> /\ \A i \in DOMAIN rest : IsDigit(rest[i])
        THEN <<"=">> \o get_column_letter(column_index_from_string(letters) + dcol)
                     \o rest
        ELSE v

\* a copy that gives every cell of a replica its template cell's value
CopiedValue_literal(ws, r, src_col, work_col, i, top) == Value(ws, r, src_col)

\* the value "for cell in col" gives the cell of replica i in column
\* work_col that is copied from the template cell (r, src_col)
CopiedValue(ws, r, src_col, work_col, i, top) ==
    LET v == Value(ws, r, src_col)
    IN  IF r = top /\ v = s_left THEN s_left \o IntStr(i)
        ELSE IF r = top /\ v = s_right THEN s_right \o IntStr(i)
        ELSE IF IsFormula(v) THEN translate_formula(v, work_col - src_col)
        ELSE v

\* One pass of "for i in range(1, count + 1)": replica i written from
\* column work_col on.  The cells written (dst) lie right of the template
\* they are read from, so the cell-by-cell loops are one simultaneous
\* assignment: each dst cell takes the value above, and the style of its
\* template cell when that cell has one (has_style).
CopyReplica(ws, i, work_col, f) ==
    LET w == f.right - f.left + 1
        dst == (f.top..f.bottom) \X (work_col..(work_col + w - 1))
        src(rc) == <<rc[1], f.left + (rc[2] - work_col)>>
        nv(rc) == CopiedValue(ws, rc[1], src(rc)[2], rc[2], i, f.top)
    IN  [val |-> [rc \in (DOMAIN ws.val \ dst) \cup {q \in dst : nv(q) # None}
                     |-> IF rc \in dst THEN nv(rc) ELSE ws.val[rc]],
         sty |-> [rc \in DOMAIN ws.sty \cup {q \in dst : src(q) \in DOMAIN ws.sty}
                     |-> IF rc \in dst /\ src(rc) \in DOMAIN ws.sty
                         THEN ws.sty[src(rc)] ELSE ws.sty[rc]]]

\* "for i in range(1, count + 1)", replicas i..count, the first at work_col
RECURSIVE CopyReplicas(_, _, _, _, _)
CopyReplicas(ws, i, count, work_col, f) ==
    IF i > count THEN ws
    ELSE CopyReplicas(CopyReplica(ws, i, work_col, f),
                      i + 1, count, work_col + (f.right - f.left + 1), f)

\* copy_form without its last loop
ClearBeyond_skipped(ws, work_col, bottom) == ws

\* "for row in ws.iter_rows(min_col=work_col, max_row=bottom): cell.value =
\* None"
ClearBeyond(ws, work_col, bottom) ==
    [ws EXCEPT !.val =
        [rc \in {k \in DOMAIN ws.val : ~(k[1] <= bottom /\ k[2] >= work_col)}
            |-> ws.val[rc]]]

\* copy_form(ws, count): [err, ws]; on an error the worksheet is as it was
copy_form(ws, count) ==
    LET f == find_form(ws)
        w == f.right - f.left + 1
    IN  IF f.err # "ok" THEN [err |-> f.err, ws |-> ws]
        ELSE [err |-> "ok",
              ws |-> ClearBeyond(CopyReplicas(ws, 1, count, f.right + 1, f),
                                 f.right + 1 + count * w, f.bottom)]

\* -------------------------------------------------- resolve_placeholders
\* the loop "for i in range(1, 1 + template.count(symbol))" from index i on:
\* cell (r, c) is the cell read at index i; replace() raises on a None value
RECURSIVE ResolveFrom(_, _, _, _, _, _, _)
ResolveFrom(ws, result, symbol, r, c, i, n) ==
    IF i > n THEN [err |-> "ok", result |-> result, consumed |-> n]
    ELSE IF Value(ws, r, c) = None
    THEN [err |-> "type_error", result |-> result, consumed |-> i]
    ELSE ResolveFrom(ws, Replace(result, symbol \o IntStr(i), Value(ws, r, c)),
                     symbol, r, c + 1, i + 1, n)

\* resolve_placeholders(template, symbol, start_cell), start_cell = (r, c):
\* [err, result, consumed], consumed the number of cells whose value was read
resolve_placeholders(ws, template, symbol, r, c) ==
    ResolveFrom(ws, template, symbol, r, c, 1, Count(template, symbol[1]))

\* ------------------------------------------------------- read_api_params
\* "for i, x in enumerate(args): req_params = req_params.replace(...)"
RECURSIVE SubstituteArgs(_, _, _)
SubstituteArgs(req_params, args, i) ==
    IF i > Len(args) THEN req_params
    ELSE SubstituteArgs(Replace(req_params, <<"%">> \o IntStr(i), args[i]),
                        args, i + 1)

\* read_api_params(cell, args), cell = (r, c): replace() is called on the
\* request-body cell, which raises when that cell is None and args is not
\* empty
read_api_params(ws, r, c, args) ==
    LET req_params == Value(ws, r, c + 3)
    IN  IF req_params = None /\ args # <<>>
        THEN [err |-> "attribute_error", api_name |-> None, region_name |-> None,
              action_name |-> None, request_params |-> None]
        ELSE [err |-> "ok",
              api_name |-> Value(ws, r, c),
              region_name |-> Value(ws, r, c + 1),
              action_name |-> Value(ws, r, c + 2),
              request_params |-> IF req_params = None THEN None
                                 ELSE SubstituteArgs(req_params, args, 1)]

\* -------------------------------------------------------------- read_path
\* "while cell.value: string += '.' + cell.value", from cell (r, c) on
RECURSIVE PathFrom(_, _, _)
PathFrom(ws, r, c) ==
    IF Value(ws, r, c) = None \/ Value(ws, r, c) = <<>> THEN <<>>
    ELSE <<".">> \o Value(ws, r, c) \o PathFrom(ws, r, c + 1)

\* read_path(start_cell): [err, path]
read_path(ws, r, c) ==
    LET string == PathFrom(ws, r, c)
    IN  IF string # <<>> THEN [err |-> "ok", path |-> <<"$">> \o string]
        ELSE [err |-> "path_not_found", path |-> <<>>]

\* ------------------------------------------------------------ json values
\* A JSON-like value: kind is str, num, datetime, dict or list; s the text of
\* a leaf; kids the members of a dict ([k, v], in insertion order) or the
\* elements of a list ([k, v] with k empty).  NoResponse is Python's None.
JStr(s) == [kind |-> "str", s |-> s, kids |-> <<>>]
JNum(s) == [kind |-> "num", s |-> s, kids |-> <<>>]
JDate(s) == [kind |-> "datetime", s |-> s, kids |-> <<>>]
JDict(kids) == [kind |-> "dict", s |-> <<>>, kids |-> kids]
JList(kids) == [kind |-> "list", s |-> <<>>, kids |-> kids]
NoResponse == [kind |-> "none", s |-> <<>>, kids |-> <<>>]

\* json.loads(request_params) on the request bodies of the model: an object
\* of string members, {} or {"k":"v",...}, or the empty array []; anything
\* else the model offers is not JSON.  [ok, value]
StringEnd(s, i) ==
    IF i > Len(s) \/ s[i] # "\"" THEN 0
    ELSE LET close == {j \in (i + 1)..Len(s) : s[j] = "\""}
         IN  IF close = {} THEN 0 ELSE CHOOSE j \in close : \A k \in close : j <= k

RECURSIVE ParseMembers(_, _, _)
ParseMembers(s, i, acc) ==
    LET ke == StringEnd(s, i)
        ve == IF ke = 0 \/ ke + 1 > Len(s) \/ s[ke + 1] # ":" THEN 0
              ELSE StringEnd(s, ke + 2)
    IN  IF ve = 0 \/ ve + 1 > Len(s) THEN [ok |-> FALSE, value |-> NoResponse]
        ELSE LET member == [k |-> SubSeq(s, i + 1, ke - 1),
                            v |-> JStr(SubSeq(s, ke + 3, ve - 1))]
             IN  IF s[ve + 1] = "}" /\ ve + 1 = Len(s)
                 THEN [ok |-> TRUE, value |-> JDict(Append(acc, member))]
                 ELSE IF s[ve + 1] = ","
                 THEN ParseMembers(s, ve + 2, Append(acc, member))
                 ELSE [ok |-> FALSE, value |-> NoResponse]

json_loads(s) ==
    IF s = None THEN [ok |-> FALSE, value |-> NoResponse]
    ELSE IF s = <<"{", "}">> THEN [ok |-> TRUE, value |-> JDict(<<>>)]
    ELSE IF s = <<"[", "]">> THEN [ok |-> TRUE, value |-> JList(<<>>)]
    ELSE IF Len(s) > 1 /\ s[1] = "{" THEN ParseMembers(s, 2, <<>>)
    ELSE [ok |-> FALSE, value |-> NoResponse]

\* json.dumps(value) without default=str raises on a datetime anywhere in it
RECURSIVE Serializable(_)
Serializable(v) ==
    /\ v.kind # "datetime"
    /\ \A i \in DOMAIN v.kids : Serializable(v.kids[i].v)

\* str(value)
RECURSIVE Repr(_)
RECURSIVE JoinRepr(_, _, _)
JoinRepr(kids, i, keyed) ==
    IF i > Len(kids) THEN <<>>
    ELSE (IF i > 1 THEN <<",", " ">> ELSE <<>>)
         \o (IF keyed THEN <<"'">> \o kids[i].k \o <<"'", ":", " ">> ELSE <<>>)
         \o Repr(kids[i].v) \o JoinRepr(kids, i + 1, keyed)
Repr(v) ==
    IF v.kind = "str" THEN <<"'">> \o v.s \o <<"'">>
    ELSE IF v.kind = "dict" THEN <<"{">> \o JoinRepr(v.kids, 1, TRUE) \o <<"}">>
    ELSE IF v.kind = "list" THEN <<"[">> \o JoinRepr(v.kids, 1, FALSE) \o <<"]">>
    ELSE v.s

Str(v) == IF v.kind = "str" THEN v.s ELSE Repr(v)

\* ------------------------------------------------- get_values, get_value
\* The path expressions of the model: "$" followed by ".segment"s, a
\* segment being a field name or "*" (every member of a dict, in order).
\* A segment that is empty or holds any other character is rejected by
\* the parser.
RECURSIVE SplitDots(_, _)
SplitDots(s, cur) ==
    IF s = <<>> THEN <<cur>>
    ELSE IF Head(s) = "." THEN <<cur>> \o SplitDots(Tail(s), <<>>)
    ELSE SplitDots(Tail(s), Append(cur, Head(s)))

NameChar(c) ==
    c \in Range(UpperAlpha) \cup Range(LowerAlpha) \cup Range(DigitChars) \cup {"_"}

SegmentOk(seg) ==
    seg # <<>> /\ (seg = <<"*">> \/ \A i \in DOMAIN seg : NameChar(seg[i]))

\* jsonpath_ng.ext.parse(path): [ok, segs]
ParsePath(path) ==
    LET parts == SplitDots(path, <<>>)
    IN  IF path = <<>> \/ parts[1] # <<"$">>
           \/ \E i \in 2..Len(parts) : ~SegmentOk(parts[i])
        THEN [ok |-> FALSE, segs |-> <<>>]
        ELSE [ok |-> TRUE, segs |-> Tail(parts)]

\* .find(): the matches of segs under value v, in document order
RECURSIVE Find(_, _)
RECURSIVE FindKids(_, _, _, _)
FindKids(kids, i, seg, rest) ==
    IF i > Len(kids) THEN <<>>
    ELSE (IF seg = <<"*">> \/ kids[i].k = seg THEN Find(kids[i].v, rest)
          ELSE <<>>)
         \o FindKids(kids, i + 1, seg, rest)
Find(v, segs) ==
    IF segs = <<>> THEN <<v>>
    ELSE IF v.kind = "dict" THEN FindKids(v.kids, 1, Head(segs), Tail(segs))
    ELSE <<>>

\* get_values(json_string, path): [err, values]; the second logger.info
\* dumps the values found without default=str
get_values(json, path) ==
    LET p == ParsePath(path)
        values == Find(json, p.segs)
    IN  IF ~p.ok THEN [err |-> "path_syntax", values |-> <<>>]
        ELSE IF \E i \in DOMAIN values : ~Serializable(values[i])
        THEN [err |-> "not_serializable", values |-> <<>>]
        ELSE [err |-> "ok", values |-> values]

\* get_value(json, path): [err, value], value NoResponse for Python's None
get_value(json, path) ==
    LET g == get_values(json, path)
    IN  IF g.err # "ok" THEN [err |-> g.err, value |-> NoResponse]
        ELSE IF 0 < Len(g.values) THEN [err |-> "ok", value |-> g.values[1]]
        ELSE [err |-> "ok", value |-> NoResponse]

\* write_value(cell, value), cell = (r, c)
write_value(ws, r, c, value) ==
    IF value = NoResponse
    THEN SetValue(SetStyle(ws, r, c,
                  [Style(ws, r, c) EXCEPT !.number_format = FORMAT_GENERAL]),
                  r, c, s_na)
    ELSE SetValue(SetStyle(ws, r, c,
                  [Style(ws, r, c) EXCEPT !.number_format = FORMAT_TEXT]),
                  r, c, Str(value))

\* ----------------------------------------------------------------- invoke
\* boto3, as far as invoke() can tell: the services for which
\* session.client() returns a client, and the attributes each client has
svc_s3 == <<"s","3">>
svc_ec2 == <<"e","c","2">>
svc_bogus == <<"n","o">>
region_us == <<"u","s">>

m_get_x == <<"g","e","t","_","x">>
m_list_ab == <<"l","i","s","t","_","a","b">>
m_delete_x == <<"d","e","l","e","t","e","_","x">>
m_describe_x == <<"d","e","s","c","r","i","b","e","_","x">>

\* session.client(api_name, region_name=region_name) returns a client
session_client(api_name, region_name) ==
    api_name \in {svc_s3, svc_ec2} /\ region_name # None

\* getattr(client, method_name) finds an attribute
HasAttr(api_name, method_name) ==
    \/ api_name = svc_s3 /\ method_name \in {m_get_x, m_list_ab, m_delete_x}
    \/ api_name = svc_ec2 /\ method_name \in {m_describe_x, m_delete_x}

\* what a client method does when called: it raises, or returns a response
Raise == [kind |-> "raise", s |-> <<>>, kids |-> <<>>]

\* clients[(api_name, region_name)] = client
cache_client_skipped(cl, key, client) == cl

cache_client(cl, key, client) ==
    [x \in DOMAIN cl \cup {key} |-> IF x = key THEN client ELSE cl[x]]

\* invoke(api_name, region_name, action_name, request_params) on the cache
\* cl (key -> client, a client being named by the number made before it,
\* plus one), when the client method, if it comes to be called, behaves as
\* outcome says: Raise, or the response it returns.
\*   err      "ok" or the step that failed
\*   clients  the cache afterwards
\*   asked    whether session.client was called
\*   called   whether the client method was called
\*   client   the client whose method was called (0: none)
invoke_safety_first(cl, made, api_name, region_name, action_name, request_params, outcome) ==
    LET key == <<api_name, region_name>>
        miss == key \notin DOMAIN cl
        built == miss /\ session_client(api_name, region_name)
        client == IF miss THEN made + 1 ELSE cl[key]
        cl1 == IF built THEN cache_client(cl, key, client) ELSE cl
        request == json_loads(request_params)
        res(err, c, called, response) ==
            [err |-> err, clients |-> c, asked |-> miss, called |-> called,
             client |-> IF called THEN client ELSE 0, response |-> response]
    IN  IF miss /\ ~built
        THEN res("invalid_service_or_region", cl, FALSE, NoResponse)
        ELSE IF action_name = None \/ ~is_safe_action(action_name)
        THEN res("unsafe_action", cl1, FALSE, NoResponse)
        ELSE IF ~HasAttr(api_name, to_snake(action_name))
        THEN res("unknown_action", cl1, FALSE, NoResponse)
        ELSE IF ~request.ok
        THEN res("invalid_request_body", cl1, FALSE, NoResponse)
        ELSE IF request.value.kind # "dict"
        THEN res("request_rejected", cl1, FALSE, NoResponse)
        ELSE IF outcome = Raise
        THEN res("request_rejected", cl1, TRUE, NoResponse)
        ELSE res("ok", cl1, TRUE, outcome)

invoke(cl, made, api_name, region_name, action_name, request_params, outcome) ==
    LET key == <<api_name, region_name>>
        miss == key \notin DOMAIN cl
        built == miss /\ session_client(api_name, region_name)
        client == IF miss THEN made + 1 ELSE cl[key]
        cl1 == IF built THEN cache_client(cl, key, client) ELSE cl
        request == json_loads(request_params)
        res(err, c, called, response) ==
            [err |-> err, clients |-> c, asked |-> miss, called |-> called,
             client |-> IF called THEN client ELSE 0, response |-> response]
    IN  IF miss /\ ~built
        THEN res("invalid_service_or_region", cl, FALSE, NoResponse)
        ELSE IF action_name = None \/ ~HasAttr(api_name, to_snake(action_name))
        THEN res("unknown_action", cl1, FALSE, NoResponse)
        ELSE IF ~is_safe_action(action_name)
        THEN res("unsafe_action", cl1, FALSE, NoResponse)
        ELSE IF ~request.ok
        THEN res("invalid_request_body", cl1, FALSE, NoResponse)
        ELSE IF request.value.kind # "dict"
        THEN \* method(**request) raises before the method runs
             res("request_rejected", cl1, FALSE, NoResponse)
        ELSE IF outcome = Raise
        THEN res("request_rejected", cl1, TRUE, NoResponse)
        ELSE res("ok", cl1, TRUE, outcome)

\* ------------------------------------------------------ process_worksheet
\* the #call branch on row r for the argument set x
call_directive(ws, r, x, cl, made, outcome) ==
    LET c == find_next_cell(ws, s_in, r, 1)
        request == read_api_params(ws, r, c, x)
        failed(err) == [err |-> err, clients |-> cl, asked |-> FALSE,
                        called |-> FALSE, client |-> 0, response |-> NoResponse,
                        request |-> request]
    IN  IF c = 0 THEN failed("symbol_not_found")
        ELSE IF request.err # "ok" THEN failed(request.err)
        ELSE [request |-> request] @@
             invoke(cl, made, request.api_name, request.region_name,
                    request.action_name, request.request_params, outcome)

\* the #output branch on row r, for the replica whose %left<i> marker is in
\* column left, reading the register response:
\* [err, ws, path, value, col], col the column written (0: none)
output_directive(ws, r, left, response) ==
    LET c == find_next_cell(ws, s_in, r, 1)
        p == read_path(ws, r, c)
        pcol == find_next_cell(ws, s_param, r, 1)
        resolved == IF Contains(p.path, "%")
                    THEN resolve_placeholders(ws, p.path, <<"%">>, r, pcol)
                    ELSE [err |-> "ok", result |-> p.path, consumed |-> 0]
        v == get_value(response, resolved.result)
        out == find_next_cell(ws, s_out, r, left)
        failed(err) == [err |-> err, ws |-> ws, path |-> <<>>,
                        value |-> NoResponse, col |-> 0]
    IN  IF c = 0 THEN failed("symbol_not_found")
        ELSE IF p.err # "ok" THEN failed(p.err)
        ELSE IF Contains(p.path, "%") /\ pcol = 0 THEN failed("symbol_not_found")
        ELSE IF resolved.err # "ok" THEN failed(resolved.err)
        ELSE IF v.err # "ok" THEN [failed(v.err) EXCEPT !.path = resolved.result]
        ELSE IF out = 0 THEN failed("symbol_not_found")
        ELSE [err |-> "ok", ws |-> write_value(ws, r, out, v.value),
              path |-> resolved.result, value |-> v.value, col |-> out]

\* ----------------------------------------- read_target_resources_by_sheet
\* A control-sheet row: [name, cells], name the first cell ("" when empty)
\* and cells the cells after it.
NotNone(v) == v # None

RECURSIVE ReadRows(_, _, _, _)
ReadRows(rows, n, sheet_names, result) ==
    IF n > Len(rows) THEN result
    ELSE LET sheet_name == rows[n].name
             args == SelectSeq(rows[n].cells, NotNone)
             at == {j \in DOMAIN result : result[j].name = sheet_name}
         IN  IF sheet_name = "" \/ sheet_name \notin sheet_names
             THEN ReadRows(rows, n + 1, sheet_names, result)
             ELSE IF at = {}
             THEN ReadRows(rows, n + 1, sheet_names,
                           Append(result, [name |-> sheet_name, args |-> <<args>>]))
             ELSE ReadRows(rows, n + 1, sheet_names,
                           [j \in DOMAIN result |->
                               IF j \in at
                               THEN [result[j] EXCEPT !.args = Append(@, args)]
                               ELSE result[j]])

\* a reader that stops at the first row naming no worksheet of the workbook
read_until_unknown(rows, sheet_names) ==
    LET bad == {n \in DOMAIN rows : rows[n].name # ""
                                    /\ rows[n].name \notin sheet_names}
        stop == IF bad = {} THEN Len(rows)
                ELSE (CHOOSE n \in bad : \A m \in bad : n <= m) - 1
    IN  ReadRows(SubSeq(rows, 1, stop), 1, sheet_names, <<>>)

\* the dict it returns, as the sequence of its items in insertion order
read_target_resources_by_sheet(rows, sheet_names) ==
    ReadRows(rows, 1, sheet_names, <<>>)

\* ------------------------------------------------------- the workbooks
\* a worksheet from its rows, each a sequence of cell values from column 1
FromRows(rows) ==
    Worksheet(
        [rc \in {q \in (1..Len(rows)) \X (1..Max({Len(rows[n]) : n \in DOMAIN rows})) :
                    q[2] <= Len(rows[q[1]]) /\ rows[q[1]][q[2]] # None}
            |-> rows[rc[1]][rc[2]]],
        EmptyMap)

a_GetX == <<"G","e","t","X">>
a_ListAb == <<"L","i","s","t","A","b">>
a_DescribeX == <<"D","e","s","c","r","i","b","e","X">>
a_DeleteX == <<"D","e","l","e","t","e","X">>
a_getX == <<"g","e","t","X">>
a_GetY == <<"G","e","t","Y">>
a_PutX == <<"P","u","t","X">>

b_empty == <<"{","}">>
b_list == <<"[","]">>
b_arg == <<"{","\"","K","\"",":","\"","%","1","\"","}">>
b_bad == <<"{">>

f_Name == <<"N","a","m","e">>
f_Count == <<"C","o","u","n","t">>
f_When == <<"W","h","e","n">>
f_Missing == <<"M","i","s","s","i","n","g">>
f_any == <<"*">>
f_arg1 == <<"%","1">>

\* the responses a client method of the model returns
RespDemo ==
    JDict(<<[k |-> f_Name, v |-> JStr(<<"d","e","m","o">>)],
            [k |-> f_Count, v |-> JNum(<<"3">>)]>>)
RespDated ==
    JDict(<<[k |-> f_When, v |-> JDate(<<"2","0","2","0">>)],
            [k |-> f_Name, v |-> JStr(<<"x">>)]>>)
Outcomes == {RespDemo, RespDated, Raise}

\* one #call and two #output rows; a cell of an earlier run is left to the
\* right of the form and one below it
WsBasic ==
    FromRows(<< <<s_top, s_left, None, None, None, s_right, None, <<"o","l","d">> >>,
                <<s_call, s_in, svc_s3, region_us, a_GetX, b_arg>>,
                <<s_output, s_in, f_Name, None, s_out>>,
                <<s_output, s_in, f_Missing, None, s_out>>,
                <<s_bottom>>,
                <<None, None, None, None, None, None, None, <<"o","l","d">> >> >>)

\* an #output row above the only #call row, and one reading a datetime
WsStale ==
    FromRows(<< <<s_top, s_left, <<"=","B","2">>, None, None, s_right>>,
                <<s_output, s_in, f_Name, None, s_out>>,
                <<s_call, s_in, svc_s3, region_us, a_ListAb, b_empty>>,
                <<s_output, s_in, f_When, None, s_out>>,
                <<s_bottom>> >>)

\* a read-only call, then a destructive one on the same client and one on
\* another; the first #output resolves its path from the ### cells
WsUnsafe ==
    FromRows(<< <<s_top, s_left, None, None, None, None, None, s_right>>,
                <<s_call, s_in, svc_s3, region_us, a_GetX, b_empty>>,
                <<s_output, s_in, f_arg1, None, s_param, f_Name, s_out>>,
                <<s_call, s_in, svc_s3, region_us, a_DeleteX, b_bad>>,
                <<s_bottom>> >>)

\* a destructive call as the first use of its client, on a row above a
\* read-only one
WsDelete ==
    FromRows(<< <<s_call, s_in, svc_s3, region_us, a_PutX, b_empty>>,
                <<s_top, s_left, None, None, None, s_right>>,
                <<s_call, s_in, svc_ec2, region_us, a_DeleteX, b_empty>>,
                <<s_output, s_in, f_any, None, s_out>>,
                <<s_bottom>>,
                <<s_call, s_in, svc_s3, region_us, a_PutX, b_empty>> >>)

\* a second worksheet: #output rows around a call to another service, and
\* directive rows above the %top row and below the %bottom row
WsOther ==
    FromRows(<< <<s_call, s_in, svc_s3, region_us, a_GetX, b_empty>>,
                <<s_top, s_left, None, None, None, s_right>>,
                <<s_output, s_in, f_any, None, s_out>>,
                <<s_call, s_in, svc_ec2, region_us, a_DescribeX, b_arg>>,
                <<s_output, s_in, f_Count, None, s_out>>,
                <<s_bottom>>,
                <<s_output, s_in, f_Name, None, s_out>> >>)

\* a worksheet whose #### cell is in the column of %right
WsEdge ==
    FromRows(<< <<s_top, s_left, None, None, None, s_right>>,
                <<s_call, s_in, svc_s3, region_us, a_GetX, b_empty>>,
                <<s_output, s_in, f_Name, None, None, s_out>>,
                <<s_bottom>> >>)

\* a worksheet with a cell "%left1" in its %top row, left of %left
WsMarked ==
    FromRows(<< <<s_top, s_left \o <<"1">>, s_left, None, None, None, s_right>>,
                <<s_call, None, s_in, svc_s3, region_us, a_GetX, b_empty>>,
                <<s_output, None, s_in, f_Name, None, s_out>>,
                <<s_bottom>> >>)

\* a worksheet with no %bottom row
WsNoBottom ==
    FromRows(<< <<s_top, s_left, s_right>>,
                <<s_call, s_in, svc_s3, region_us, a_GetX, b_empty>> >>)

\* the cells after the name in control-sheet row n
ArgCells(n) ==
    IF n % 3 = 1 THEN << <<"a">> >>
    ELSE IF n % 3 = 2 THEN << None, <<"b">> >>
    ELSE << <<"c">>, <<"d">> >>

RECURSIVE ControlSheets(_)
ControlSheets(n) ==
    IF n = 0 THEN {<<>>}
    ELSE ControlSheets(n - 1) \cup
         {Append(c, [name |-> nm, cells |-> ArgCells(n)]) :
             c \in {q \in ControlSheets(n - 1) : Len(q) = n - 1},
             nm \in {"S1", "S2", "Gone", ""}}

\* ------------------------------------------------------------- the state
VARIABLES
    wb,        \* the workbook: worksheet name -> worksheet
    control,   \* the rows of the TargetResources worksheet
    clients,   \* the module's client cache: (api, region) -> client
    pc,        \* where process_workbook is
    sheets,    \* process_workbook: the items of the dict read from control
    k,         \* process_workbook: the index in sheets of sheet_name
    i,         \* process_worksheet: the replica being scanned (1-based)
    row,       \* process_worksheet: the row being scanned
    left,      \* process_worksheet: the column of the cell left (0: None)
    response,  \* process_worksheet: the response register
    asked,     \* history: the calls of session.client, [key, ok]
    invoked,   \* history: the client methods called, [key, client, action]
    trace,     \* history: the directives executed
    begun,     \* history: the worksheets handed to process_worksheet
    saved,     \* history: the number of calls of wb.save
    failure,   \* the exception process_workbook raised, [sheet, kind]
    arg,       \* the function checks: the input
    ret        \* the function checks: the result

vars == <<wb, control, clients, pc, sheets, k, i, row, left, response,
          asked, invoked, trace, begun, saved, failure, arg, ret>>

NoFailure == [sheet |-> "", kind |-> "none"]
Idle == [op |-> "none"]

\* wb.sheetnames
sheetnames == DOMAIN wb \cup {"TargetResources"}

sheet_name == sheets[k].name
ws == wb[sheet_name]
\* the argument sets of the worksheet being processed
args == sheets[k].args

Init ==
    /\ wb \in [{"S1", "S2"} -> {WsBasic, WsStale, WsUnsafe, WsDelete, WsOther,
                                WsNoBottom, WsEdge, WsMarked}]
    /\ wb["S1"] \in {WsBasic, WsStale, WsUnsafe, WsDelete}
    /\ wb["S2"] \in {WsOther, WsNoBottom, WsEdge, WsMarked}
    /\ control \in ControlSheets(MaxRows)
    /\ clients = EmptyMap
    /\ pc = "start"
    /\ sheets = <<>>
    /\ k = 0
    /\ i = 0
    /\ row = 0
    /\ left = 0
    /\ response = NoResponse
    /\ asked = <<>>
    /\ invoked = <<>>
    /\ trace = <<>>
    /\ begun = <<>>
    /\ saved = 0
    /\ failure = NoFailure
    /\ arg = Idle
    /\ ret = Idle

FnIdle == UNCHANGED <<arg, ret>>

\* a handler that logs the exception and lets the loop go on
Raised_swallowed(kind) ==
    /\ pc' = "loop"
    /\ failure' = [sheet |-> sheet_name, kind |-> kind]

\* a handler that records the exception and runs the directive again
Raised_retried(kind) ==
    /\ pc' = pc
    /\ failure' = [sheet |-> sheet_name, kind |-> kind]

\* "raise Exception('Failed: ' + sheet_name) from e"
Raised(kind) ==
    /\ pc' = "failed"
    /\ failure' = [sheet |-> sheet_name, kind |-> kind]

\* process_workbook: sheets = read_target_resources_by_sheet(ws)
ReadTargets ==
    /\ pc = "start"
    /\ sheets' = read_target_resources_by_sheet(control, sheetnames)
    /\ pc' = "loop"
    /\ UNCHANGED <<wb, control, clients, k, i, row, left, response, asked,
                   invoked, trace, begun, saved, failure>>
    /\ FnIdle

\* a process_worksheet that keeps the register of the worksheet before
BeginWorksheet_kept ==
    /\ pc = "loop"
    /\ k < Len(sheets)
    /\ k' = k + 1
    /\ LET nm == sheets[k + 1].name
           n == Len(sheets[k + 1].args)
           copied == copy_form(wb[nm], n)
       IN  /\ begun' = Append(begun, nm)
           /\ IF copied.err # "ok"
              THEN /\ pc' = "failed"
                   /\ failure' = [sheet |-> nm, kind |-> copied.err]
                   /\ UNCHANGED <<wb, i, row, left, response>>
              ELSE /\ wb' = [wb EXCEPT ![nm] = copied.ws]
                   /\ response' = response
                   /\ i' = 1
                   /\ row' = 1
                   /\ left' = 0
                   /\ pc' = IF n = 0 THEN "loop" ELSE "rows"
                   /\ UNCHANGED failure
    /\ UNCHANGED <<control, clients, sheets, asked, invoked, trace, saved>>
    /\ FnIdle

\* the next item of sheets.items(): process_worksheet up to its first
\* replica, that is copy_form and response = None
BeginWorksheet ==
    /\ pc = "loop"
    /\ k < Len(sheets)
    /\ k' = k + 1
    /\ LET nm == sheets[k + 1].name
           n == Len(sheets[k + 1].args)
           copied == copy_form(wb[nm], n)
       IN  /\ begun' = Append(begun, nm)
           /\ IF copied.err # "ok"
              THEN /\ pc' = "failed"
                   /\ failure' = [sheet |-> nm, kind |-> copied.err]
                   /\ UNCHANGED <<wb, i, row, left, response>>
              ELSE /\ wb' = [wb EXCEPT ![nm] = copied.ws]
                   /\ response' = NoResponse
                   /\ i' = 1
                   /\ row' = 1
                   /\ left' = 0
                   /\ pc' = IF n = 0 THEN "loop" ELSE "rows"
                   /\ UNCHANGED failure
    /\ UNCHANGED <<control, clients, sheets, asked, invoked, trace, saved>>
    /\ FnIdle

\* the row scanned is a %top row: left = find_column_symbol('%left<i>', cell)
RowTop ==
    /\ pc = "rows"
    /\ row <= max_row(ws)
    /\ Value(ws, row, 1) = s_top
    /\ LET l == find_column_symbol(ws, s_left \o IntStr(i), row, 1)
       IN  IF l = 0
           THEN /\ Raised("symbol_not_found")
                /\ UNCHANGED <<left, row>>
           ELSE /\ left' = l
                /\ row' = row + 1
                /\ UNCHANGED <<pc, failure>>
    /\ UNCHANGED <<wb, control, clients, sheets, k, i, response, asked,
                   invoked, trace, begun, saved>>
    /\ FnIdle

\* a register that is cleared for every argument set
RowBottom_reset ==
    /\ pc = "rows"
    /\ row > max_row(ws) \/ Value(ws, row, 1) = s_bottom
    /\ IF i < Len(args)
       THEN /\ i' = i + 1
            /\ row' = 1
            /\ left' = 0
            /\ pc' = "rows"
       ELSE /\ pc' = "loop"
            /\ UNCHANGED <<i, row, left>>
    /\ response' = NoResponse
    /\ UNCHANGED <<wb, control, clients, sheets, k, asked, invoked,
                   trace, begun, saved, failure>>
    /\ FnIdle

\* a loop that goes from the first argument set straight to the last
RowBottom_last ==
    /\ pc = "rows"
    /\ row > max_row(ws) \/ Value(ws, row, 1) = s_bottom
    /\ IF i < Len(args)
       THEN /\ i' = Len(args)
            /\ row' = 1
            /\ left' = 0
            /\ pc' = "rows"
       ELSE /\ pc' = "loop"
            /\ UNCHANGED <<i, row, left>>
    /\ UNCHANGED <<wb, control, clients, sheets, k, response, asked, invoked,
                   trace, begun, saved, failure>>
    /\ FnIdle

\* the row scanned is the %bottom row (break), or the rows are exhausted:
\* on to the next argument set, or process_worksheet returns
RowBottom ==
    /\ pc = "rows"
    /\ row > max_row(ws) \/ Value(ws, row, 1) = s_bottom
    /\ IF i < Len(args)
       THEN /\ i' = i + 1
            /\ row' = 1
            /\ left' = 0
            /\ pc' = "rows"
       ELSE /\ pc' = "loop"
            /\ UNCHANGED <<i, row, left>>
    /\ UNCHANGED <<wb, control, clients, sheets, k, response, asked, invoked,
                   trace, begun, saved, failure>>
    /\ FnIdle

\* the row scanned is a #call row inside the form
RowCall ==
    /\ pc = "rows"
    /\ row <= max_row(ws)
    /\ left # 0
    /\ Value(ws, row, 1) = s_call
    /\ \E outcome \in Outcomes :
          LET c == call_directive(ws, row, args[i], clients, Len(asked), outcome)
              key == <<c.request.api_name, c.request.region_name>>
          IN  /\ clients' = c.clients
              /\ asked' = IF c.asked
                          THEN Append(asked, [key |-> key,
                                              ok |-> key \in DOMAIN c.clients])
                          ELSE asked
              /\ invoked' = IF c.called
                            THEN Append(invoked,
                                        [key |-> key, client |-> c.client,
                                         action |-> c.request.action_name])
                            ELSE invoked
              /\ trace' = Append(trace,
                     [kind |-> "call", sheet |-> sheet_name, pass |-> Len(begun),
                      rep |-> i, row |-> row, err |-> c.err,
                      resp |-> c.response, col |-> 0, request |-> c.request,
                      x |-> args[i], path |-> <<>>,
                      before |-> clients, after |-> c.clients])
              /\ IF c.err # "ok"
                 THEN /\ Raised(c.err)
                      /\ UNCHANGED <<response, row>>
                 ELSE /\ response' = c.response
                      /\ row' = row + 1
                      /\ UNCHANGED <<pc, failure>>
    /\ UNCHANGED <<wb, control, sheets, k, i, left, begun, saved>>
    /\ FnIdle

\* the row scanned is an #output row inside the form
RowOutput ==
    /\ pc = "rows"
    /\ row <= max_row(ws)
    /\ left # 0
    /\ Value(ws, row, 1) = s_output
    /\ LET o == output_directive(ws, row, left, response)
       IN  /\ trace' = Append(trace,
                  [kind |-> "output", sheet |-> sheet_name, pass |-> Len(begun),
                   rep |-> i, row |-> row, err |-> o.err,
                   resp |-> response, col |-> o.col, request |-> Idle,
                   x |-> args[i], path |-> o.path,
                   before |-> clients, after |-> clients])
           /\ IF o.err # "ok"
              THEN /\ Raised(o.err)
                   /\ UNCHANGED <<wb, row>>
              ELSE /\ wb' = [wb EXCEPT ![sheet_name] = o.ws]
                   /\ row' = row + 1
                   /\ UNCHANGED <<pc, failure>>
    /\ UNCHANGED <<control, clients, sheets, k, i, left, response, asked,
                   invoked, begun, saved>>
    /\ FnIdle

\* any other row: a directive row outside the form, or no directive at all
RowSkip ==
    /\ pc = "rows"
    /\ row <= max_row(ws)
    /\ Value(ws, row, 1) \notin {s_top, s_bottom}
    /\ ~(left # 0 /\ Value(ws, row, 1) \in {s_call, s_output})
    /\ row' = row + 1
    /\ UNCHANGED <<wb, control, clients, pc, sheets, k, i, left, response,
                   asked, invoked, trace, begun, saved, failure>>
    /\ FnIdle

\* wb.save(dst_filename), which returns ...
Save ==
    /\ pc = "loop"
    /\ k = Len(sheets)
    /\ saved' = saved + 1
    /\ pc' = "done"
    /\ UNCHANGED <<wb, control, clients, sheets, k, i, row, left, response,
                   asked, invoked, trace, begun, failure>>
    /\ FnIdle

\* ... or raises: the handler names sheet_name, the last worksheet of the
\* loop (no name at all when sheets was empty: sheet_name is unbound)
SaveFails ==
    /\ pc = "loop"
    /\ k = Len(sheets)
    /\ saved' = saved + 1
    /\ pc' = "failed"
    /\ failure' = [sheet |-> IF k = 0 THEN "" ELSE sheet_name,
                   kind |-> "save_error"]
    /\ UNCHANGED <<wb, control, clients, sheets, k, i, row, left, response,
                   asked, invoked, trace, begun>>
    /\ FnIdle

Next ==
    \/ ReadTargets
    \/ BeginWorksheet
    \/ RowTop
    \/ RowBottom
    \/ RowCall
    \/ RowOutput
    \/ RowSkip
    \/ Save
    \/ SaveFails

Spec == Init /\ [][Next]_vars

\* ------------------------------------------- invoke(), called on its own
\* what the function checks leave alone: the workbook run
RunIdle ==
    UNCHANGED <<wb, control, pc, sheets, k, i, row, left, response, asked,
                invoked, trace, begun, saved, failure>>

InitIdle ==
    /\ control = <<>>
    /\ sheets = <<>>
    /\ k = 0
    /\ i = 0
    /\ row = 0
    /\ left = 0
    /\ response = NoResponse
    /\ asked = <<>>
    /\ invoked = <<>>
    /\ trace = <<>>
    /\ begun = <<>>
    /\ saved = 0
    /\ failure = NoFailure

InitInvoke ==
    /\ InitIdle
    /\ wb = EmptyMap
    /\ clients = EmptyMap
    /\ pc = "invoke"
    /\ arg = Idle
    /\ ret = Idle

\* one call of invoke() on the cache as the calls before left it
InvokeCall ==
    /\ pc = "invoke"
    /\ \E api_name \in {svc_s3, svc_ec2, svc_bogus},
          region_name \in {region_us, None},
          action_name \in {a_GetX, a_DescribeX, a_DeleteX, a_GetY, a_PutX,
                           None},
          request_params \in {b_empty, b_list, b_bad, None},
          outcome \in Outcomes :
          LET r == invoke(clients, Cardinality(DOMAIN clients), api_name,
                          region_name, action_name, request_params, outcome)
          IN  /\ arg' = [op |-> "invoke", clients |-> clients,
                         api_name |-> api_name, region_name |-> region_name,
                         action_name |-> action_name,
                         request_params |-> request_params,
                         outcome |-> outcome]
              /\ ret' = r
              /\ clients' = r.clients
    /\ RunIdle

SpecInvoke == InitInvoke /\ [][InvokeCall]_vars

\* ---------------------------------------- copy_form(), called on its own
\* a form of width 2 that starts in column 3, with a row above %top and one
\* below %bottom, a formula and a styled cell
WsForm ==
    SetStyle(
        FromRows(<< << <<"h","e","a","d">> >>,
                    <<s_top, None, s_left, s_right>>,
                    <<s_call, None, s_in, <<"=","C","1">> >>,
                    <<s_bottom>>,
                    << <<"f","o","o","t">> >> >>),
        3, 3, [font |-> "bold", number_format |-> FORMAT_TEXT])

\* a form of width 3 whose %top row is the first row
WsWide ==
    FromRows(<< <<s_top, s_left, None, s_right>>,
                <<s_output, s_in, f_Name, s_out>>,
                <<s_bottom>>,
                << <<"f","o","o","t">> >> >>)

\* what an earlier use of the worksheet may have left right of the form
Leftovers ==
    (<<1, 5>> :> <<"o","l","d">>) @@ (<<2, 9>> :> s_left \o <<"7">>)
    @@ (<<3, 7>> :> <<"o","l","d">>) @@ (<<4, 11>> :> <<"o","l","d">>)
    @@ (<<5, 6>> :> <<"o","l","d">>) @@ (<<5, 12>> :> <<"o","l","d">>)

WithLeftovers(sheet, cells) ==
    [sheet EXCEPT !.val = [rc \in cells |-> Leftovers[rc]] @@ sheet.val]

InitCopy ==
    /\ InitIdle
    /\ clients = EmptyMap
    /\ \E base \in {WsForm, WsWide}, cells \in SUBSET DOMAIN Leftovers :
          wb = [n \in {"S1"} |-> WithLeftovers(base, cells)]
    /\ pc = "copy"
    /\ arg = Idle
    /\ ret = Idle

\* copy_form(ws, count) on the worksheet as it is, twice in a row
CopyForm ==
    /\ pc \in {"copy", "copy_again"}
    /\ \E count \in 0..MaxCount :
          LET r == copy_form(wb["S1"], count)
          IN  /\ arg' = [op |-> "copy_form", ws |-> wb["S1"], count |-> count]
              /\ ret' = r
              /\ wb' = [wb EXCEPT !["S1"] = r.ws]
    /\ pc' = IF pc = "copy" THEN "copy_again" ELSE "copied"
    /\ UNCHANGED <<control, clients, sheets, k, i, row, left, response,
                   asked, invoked, trace, begun, saved, failure>>

SpecCopy == InitCopy /\ [][CopyForm]_vars

\* ------------------------------ resolve_placeholders(), called on its own
\* the template "%1-%2-...-%n"
RECURSIVE TemplateUpTo(_)
TemplateUpTo(n) ==
    IF n = 0 THEN <<>>
    ELSE IF n = 1 THEN <<"%", "1">>
    ELSE TemplateUpTo(n - 1) \o <<"-", "%">> \o IntStr(n)

\* the values of the cells next to the template
CellValues == {<<"a">>, <<"b", "c">>, <<"%", "2">>, <<"1">>}

\* the letters a, b, c, ... as ten cell values
TenCells == [n \in 1..10 |-> <<LowerAlpha[n]>>]

InitResolve ==
    /\ InitIdle
    /\ clients = EmptyMap
    /\ \E template \in {TemplateUpTo(n) : n \in 0..MaxCells}
                       \cup {<<"%", "2", "%", "1">>, TemplateUpTo(10),
                             <<"%", "1", "-", "%", "1">>, <<"%", "2">>} :
          \E n \in 0..(MaxCells + 1) :
             \E cells \in [1..n -> CellValues] \cup {TenCells} :
                /\ arg = [op |-> "resolve", template |-> template,
                          cells |-> cells]
                /\ wb = [nm \in {"S1"} |-> FromRows(<< <<template>> \o cells >>)]
    /\ pc = "resolve"
    /\ ret = Idle

\* resolve_placeholders(template, '%', start_cell), start_cell the cell
\* after the template's
Resolve ==
    /\ pc = "resolve"
    /\ ret' = resolve_placeholders(wb["S1"], arg.template, <<"%">>, 1, 2)
    /\ pc' = "resolved"
    /\ UNCHANGED <<wb, control, clients, sheets, k, i, row, left, response,
                   asked, invoked, trace, begun, saved, failure, arg>>

SpecResolve == InitResolve /\ [][Resolve]_vars

\* ---------------------------------------- find_form(), called on its own
\* a worksheet whose marker column holds markers, top to bottom; each %top
\* row is followed by the cells symbols, every other row by one cell
MarkerSheet(markers, symbols) ==
    FromRows([n \in DOMAIN markers |->
                 IF markers[n] = s_top THEN <<s_top>> \o symbols
                 ELSE <<markers[n], <<"x">> >>])

InitFind ==
    /\ InitIdle
    /\ clients = EmptyMap
    /\ \E n \in 1..MaxMarkers :
          \E markers \in [1..n -> {s_top, s_bottom, s_call, None}],
             symbols \in {<<s_left, s_right>>, <<s_left>>, <<s_right, s_left>>} :
             /\ arg = [op |-> "find_form", markers |-> markers,
                       symbols |-> symbols]
             /\ wb = [nm \in {"S1"} |-> MarkerSheet(markers, symbols)]
    /\ pc = "find"
    /\ ret = Idle

FindForm ==
    /\ pc = "find"
    /\ ret' = find_form(wb["S1"])
    /\ pc' = "found"
    /\ UNCHANGED <<wb, control, clients, sheets, k, i, row, left, response,
                   asked, invoked, trace, begun, saved, failure, arg>>

SpecFind == InitFind /\ [][FindForm]_vars

\* ------------------------- to_snake() and is_safe_action(), on their own
\* the strings of at most n characters of a small alphabet
RECURSIVE NamesUpTo(_)
NamesUpTo(n) ==
    IF n = 0 THEN {<<>>}
    ELSE NamesUpTo(n - 1) \cup
         {Append(w, c) : w \in {q \in NamesUpTo(n - 1) : Len(q) = n - 1},
                         c \in {"G", "e", "t", "L", "x"}}

a_CreateX == <<"C","r","e","a","t","e","X">>
a_describeX == <<"d","e","s","c","r","i","b","e","X">>
a_DescribX == <<"D","e","s","c","r","i","b","X">>
a_LisT == <<"L","i","s","T">>
a_XGet == <<"X","G","e","t">>

ActionNames ==
    (NamesUpTo(MaxName) \ {<<>>})
    \cup {a_GetX, a_ListAb, a_DescribeX, a_DeleteX, a_getX, a_GetY, a_PutX,
          a_CreateX, a_describeX, a_DescribX, a_LisT, a_XGet, s_Describe,
          s_List}

InitNames ==
    /\ InitIdle
    /\ clients = EmptyMap
    /\ wb = EmptyMap
    /\ \E name \in ActionNames : arg = [op |-> "name", name |-> name]
    /\ pc = "name"
    /\ ret = Idle

\* to_snake(action_name) and is_safe_action(action_name), as invoke() calls
\* them on the action name it is given
NameCall ==
    /\ pc = "name"
    /\ ret' = [snake |-> to_snake(arg.name), safe |-> is_safe_action(arg.name)]
    /\ pc' = "named"
    /\ UNCHANGED <<wb, control, clients, sheets, k, i, row, left, response,
                   asked, invoked, trace, begun, saved, failure, arg>>

SpecNames == InitNames /\ [][NameCall]_vars

\* ------------------------------------------------------------- the claims
\* the prefixes the contract names, stated apart from is_safe_action
ReadOnlyName(a) ==
    \E p \in {<<"G","e","t">>, <<"D","e","s","c","r","i","b","e">>,
              <<"L","i","s","t">>} :
        Len(a) >= Len(p) /\ \A n \in 1..Len(p) : a[n] = p[n]

\* the Call directives executed so far whose operands could be read
CallsMade == {n \in DOMAIN trace : trace[n].kind = "call"
                                   /\ trace[n].request.err = "ok"}

\* C1: in any run, every client method invoked was invoked for an action
\* whose name starts with Get, Describe or List, and every Call directive
\* naming any other action ended in a failure.
C1_OnlyReadOnlyInvoked ==
    /\ \A n \in DOMAIN invoked : ReadOnlyName(invoked[n].action)
    /\ \A n \in CallsMade :
          ~ReadOnlyName(trace[n].request.action_name) => trace[n].err # "ok"

\* a destructive action whose callable exists was refused by the filter
C1_Witness ==
    \E n \in CallsMade :
        /\ trace[n].request.action_name = a_DeleteX
        /\ trace[n].err = "unsafe_action"
        /\ pc = "failed"

\* the Call directives that named an action that is not read-only
UnsafeCalls == {n \in CallsMade : ~ReadOnlyName(trace[n].request.action_name)}

CallKey(n) == <<trace[n].request.api_name, trace[n].request.region_name>>

\* C2 as stated: a Call directive naming an unsafe action leaves the client
\* cache as it was.
C2_CacheUnchanged ==
    \A n \in UnsafeCalls : trace[n].after = trace[n].before

\* C2 as amended: a Call directive naming an unsafe action invokes no client
\* method; it leaves the cache as it was when its (service, region) was
\* cached already or no client could be constructed for it, and otherwise
\* adds exactly the entry for its (service, region).
C2_CacheGainsOnlyOwnKey ==
    \A n \in UnsafeCalls :
        LET e == trace[n]
        IN  /\ e.err # "ok"
            /\ e.resp = NoResponse
            /\ IF CallKey(n) \in DOMAIN e.before
                  \/ e.err = "invalid_service_or_region"
               THEN e.after = e.before
               ELSE /\ DOMAIN e.after = DOMAIN e.before \cup {CallKey(n)}
                    /\ \A q \in DOMAIN e.before : e.after[q] = e.before[q]

\* an unsafe Call was the first use of its (service, region) and was refused
\* by the filter with the new client in the cache
C2_Witness ==
    \E n \in UnsafeCalls :
        /\ CallKey(n) \notin DOMAIN trace[n].before
        /\ CallKey(n) \in DOMAIN trace[n].after
        /\ trace[n].err = "unsafe_action"

\* the worksheets the control sheet names that the workbook has, in the
\* order of their first row
RECURSIVE FirstNames(_, _)
FirstNames(n, acc) ==
    IF n > Len(control) THEN acc
    ELSE FirstNames(n + 1,
             IF control[n].name \in DOMAIN wb
                /\ \A m \in DOMAIN acc : acc[m] # control[n].name
             THEN Append(acc, control[n].name) ELSE acc)

Targets == FirstNames(1, <<>>)

\* the argument sets of worksheet s: the cells that are not empty of every
\* control-sheet row naming s, in row order
RECURSIVE ArgSetsFrom(_, _)
ArgSetsFrom(s, n) ==
    IF n > Len(control) THEN <<>>
    ELSE (IF control[n].name = s
          THEN << SelectSeq(control[n].cells, NotNone) >> ELSE <<>>)
         \o ArgSetsFrom(s, n + 1)

WorksheetFailed == failure.kind \notin {"none", "save_error"}

\* C3: save is requested at most once and only when every target worksheet
\* has been processed without failure; when processing a worksheet fails
\* the run ends in a failure naming that worksheet, no later worksheet is
\* processed and save is never requested.
C3_SaveOnlyAfterAll ==
    /\ saved <= 1
    /\ saved = 1 => /\ ~WorksheetFailed
                    /\ begun = Targets
                    /\ pc \in {"done", "failed"}
                    /\ \A n \in DOMAIN trace : trace[n].err = "ok"
    /\ (\E n \in DOMAIN trace : trace[n].err # "ok") => WorksheetFailed
    /\ WorksheetFailed =>
          /\ pc = "failed"
          /\ saved = 0
          /\ begun # <<>>
          /\ failure.sheet = begun[Len(begun)]
          /\ begun = SubSeq(Targets, 1, Len(begun))
          /\ \A n \in DOMAIN trace :
                trace[n].err # "ok" => n = Len(trace)
                                       /\ trace[n].sheet = failure.sheet

\* the first of two target worksheets failed at a directive
C3_Witness ==
    /\ WorksheetFailed
    /\ Len(Targets) = 2
    /\ begun = <<Targets[1]>>
    /\ trace # <<>>
    /\ trace[Len(trace)].err # "ok"

\* the Call directives executed before trace entry n in the same pass
CallsBefore(n) ==
    {m \in 1..(n - 1) : trace[m].kind = "call" /\ trace[m].pass = trace[n].pass}

Outputs == {n \in DOMAIN trace : trace[n].kind = "output"}

\* C4: every Output directive reads the response stored by the most recent
\* Call directive of its pass, null when there is none; an Output executed
\* for replica i >= 2 before any Call of that replica reads the response of
\* the last Call executed for replica i - 1.
C4_OutputReadsLastCall ==
    \A n \in Outputs :
        LET before == CallsBefore(n)
            own == {m \in before : trace[m].rep = trace[n].rep}
            prev == {m \in before : trace[m].rep = trace[n].rep - 1}
        IN  /\ trace[n].resp = IF before = {} THEN NoResponse
                               ELSE trace[Max(before)].resp
            /\ (trace[n].rep >= 2 /\ own = {} /\ prev # {})
                  => trace[n].resp = trace[Max(prev)].resp

\* an Output of replica 2, executed before any Call of replica 2, read the
\* response returned to the last Call of replica 1
C4_Witness ==
    \E n \in Outputs :
        /\ trace[n].rep = 2
        /\ \A m \in CallsBefore(n) : trace[m].rep = 1
        /\ CallsBefore(n) # {}
        /\ trace[n].resp = trace[Max(CallsBefore(n))].resp
        /\ trace[n].resp # NoResponse
        /\ trace[n].err = "ok"

\* C8: a control-sheet row naming a worksheet the workbook does not have is
\* skipped: that name is never processed and fails nothing, the worksheets
\* the other rows name are processed in the order of their first rows, each
\* with the argument sets of all its rows in row order, and the run that
\* meets no other failure saves the workbook.
C8_UnknownNameSkipped ==
    /\ \A n \in DOMAIN begun : begun[n] \in DOMAIN wb
    /\ failure.sheet \in DOMAIN wb \cup {""}
    /\ begun = SubSeq(Targets, 1, Len(begun))
    /\ pc # "start" =>
          /\ Len(sheets) = Len(Targets)
          /\ \A n \in DOMAIN sheets :
                /\ sheets[n].name = Targets[n]
                /\ sheets[n].args = ArgSetsFrom(Targets[n], 1)
    /\ \A n \in DOMAIN trace :
          /\ trace[n].rep <= Len(ArgSetsFrom(trace[n].sheet, 1))
          /\ trace[n].x = ArgSetsFrom(trace[n].sheet, 1)[trace[n].rep]
    /\ pc = "done" => saved = 1 /\ begun = Targets

\* a run whose control sheet names a missing worksheet between the rows of
\* two worksheets of the workbook processed both and saved
C8_Witness ==
    /\ pc = "done"
    /\ saved = 1
    /\ Len(control) = 3
    /\ control[1].name \in DOMAIN wb
    /\ control[2].name = "Gone"
    /\ control[3].name \in DOMAIN wb
    /\ control[3].name # control[1].name
    /\ Len(begun) = 2
    /\ \E n \in DOMAIN trace : trace[n].sheet = control[3].name

\* the elements the path of Output n matches in the response it read
Matches(n) == Find(trace[n].resp, ParsePath(trace[n].path).segs)

\* the Output directives whose path and destination cell were found
OutputsEvaluated ==
    {n \in Outputs : trace[n].err \in {"ok", "not_serializable"}}

\* C10: an Output directive whose path matches nothing writes "=NA()" with
\* the General number format, and one whose path matches writes the string
\* form of the first match with the text number format.
C10_OutputWritten ==
    (trace # <<>> /\ Len(trace) \in OutputsEvaluated) =>
        LET e == trace[Len(trace)]
            sheet == wb[e.sheet]
            m == Matches(Len(trace))
        IN  /\ e.err = "ok"
            /\ Value(sheet, e.row, e.col) =
                  IF m = <<>> THEN s_na ELSE Str(m[1])
            /\ Style(sheet, e.row, e.col).number_format =
                  IF m = <<>> THEN FORMAT_GENERAL ELSE FORMAT_TEXT

\* the steps of the call of invoke() last made that fail, or would fail if
\* they were reached
ArgKey == <<arg.api_name, arg.region_name>>
FailsClient ==
    ArgKey \notin DOMAIN arg.clients
    /\ ~session_client(arg.api_name, arg.region_name)
FailsLookup ==
    arg.action_name = None \/ ~HasAttr(arg.api_name, to_snake(arg.action_name))
FailsSafety == ~ReadOnlyName(arg.action_name)
FailsBody == ~json_loads(arg.request_params).ok
FailsInvocation ==
    FailsBody \/ json_loads(arg.request_params).value.kind # "dict"
    \/ arg.outcome = Raise

\* C5: invoke() reports the failure of the earliest failing step in the
\* order client construction, callable lookup, safety filter, request-body
\* parsing, invocation, and calls the client method only when the four
\* steps before the invocation succeed.
C5_EarliestFailureReported ==
    arg # Idle =>
        /\ ret.err = IF FailsClient THEN "invalid_service_or_region"
                     ELSE IF FailsLookup THEN "unknown_action"
                     ELSE IF FailsSafety THEN "unsafe_action"
                     ELSE IF FailsBody THEN "invalid_request_body"
                     ELSE IF FailsInvocation THEN "request_rejected"
                     ELSE "ok"
        /\ ret.called =>
              ~FailsClient /\ ~FailsLookup /\ ~FailsSafety /\ ~FailsBody
        /\ ret.err = "ok" => ret.called /\ ret.response = arg.outcome
        /\ FailsClient => ret.clients = arg.clients

\* an unsafe action with no callable and an unparsable body failed as an
\* unknown action on a client that could be constructed
C5_Witness ==
    /\ arg # Idle
    /\ ~FailsClient
    /\ FailsLookup
    /\ FailsSafety
    /\ FailsBody
    /\ ret.err = "unknown_action"

\* C6: the factory is asked for a client exactly on a cache miss; a client
\* constructed is cached under its key, no entry is ever dropped or
\* replaced, a call whose key is cached uses the cached client, and a failed
\* construction adds no entry.
C6_FactoryOnlyOnMiss ==
    arg # Idle =>
        /\ ret.asked <=> ArgKey \notin DOMAIN arg.clients
        /\ \A q \in DOMAIN arg.clients :
              q \in DOMAIN clients /\ clients[q] = arg.clients[q]
        /\ DOMAIN clients \subseteq DOMAIN arg.clients \cup {ArgKey}
        /\ (ret.asked /\ session_client(arg.api_name, arg.region_name))
              => ArgKey \in DOMAIN clients
        /\ ret.err = "invalid_service_or_region" => clients = arg.clients
        /\ ret.called => /\ ArgKey \in DOMAIN clients
                         /\ ret.client = clients[ArgKey]
        /\ \A q \in DOMAIN clients, p \in DOMAIN clients :
              clients[q] = clients[p] => q = p

\* a call whose key was cached by an earlier call used that client without
\* asking the factory, with another client in the cache beside it
C6_Witness ==
    /\ arg # Idle
    /\ ArgKey \in DOMAIN arg.clients
    /\ Cardinality(DOMAIN arg.clients) = 2
    /\ ~ret.asked
    /\ ret.called
    /\ ret.client = arg.clients[ArgKey]

\* the form of the worksheet copy_form was last given, its width, and the
\* first column after the replicas asked for
CopyF == find_form(arg.ws)
CopyW == CopyF.right - CopyF.left + 1
CopyEnd == CopyF.right + arg.count * CopyW + 1
Copied == arg # Idle /\ arg.op = "copy_form"

\* the columns of the %top row that hold a replica's marker, symbol
\* followed by a number
Markers(sheet, symbol) ==
    {c \in 1..max_column(sheet) :
        LET v == Value(sheet, CopyF.top, c)
        IN  v # None /\ StartsWith(v, symbol) /\ Len(v) > Len(symbol)}

\* replicas 1..count one after the other from the column after the template,
\* each as wide as the template, and no more of them
ReplicasContiguous ==
    /\ \A n \in 1..arg.count :
          /\ Value(ret.ws, CopyF.top, CopyF.right + 1 + (n - 1) * CopyW)
                = s_left \o IntStr(n)
          /\ Value(ret.ws, CopyF.top, CopyF.right + n * CopyW)
                = s_right \o IntStr(n)
    /\ Markers(ret.ws, s_left)
          = {CopyF.right + 1 + (n - 1) * CopyW : n \in 1..arg.count}
    /\ Markers(ret.ws, s_right)
          = {CopyF.right + n * CopyW : n \in 1..arg.count}

\* C7 as stated: after copy_form(ws, N) there are exactly N contiguous
\* replicas and every cell of the worksheet beyond the last replica is
\* empty.
C7_AllBeyondEmpty ==
    Copied =>
        /\ ReplicasContiguous
        /\ \A rc \in DOMAIN ret.ws.val : rc[2] < CopyEnd

\* C7 amended: after copy_form(ws, N) there are exactly N contiguous
\* replicas, every cell beyond the last replica in the rows down to the
\* %bottom row is empty, and the cells below the %bottom row are as they
\* were.
C7_BeyondEmptyDownToBottom ==
    Copied =>
        /\ ret.err = "ok"
        /\ ReplicasContiguous
        /\ \A rc \in DOMAIN ret.ws.val :
              rc[1] <= CopyF.bottom => rc[2] < CopyEnd
        /\ \A r \in (CopyF.bottom + 1)..(max_row(arg.ws) + 1),
              c \in 1..(max_column(arg.ws) + 1) :
              Value(ret.ws, r, c) = Value(arg.ws, r, c)

\* one replica was asked for on a worksheet that held two and a cell below
\* the %bottom row beyond them: the second replica is gone, the cell is not
C7_Witness ==
    /\ Copied
    /\ arg.count = 1
    /\ Markers(arg.ws, s_left) = {CopyF.right + 1, CopyF.right + 1 + CopyW}
    /\ Markers(ret.ws, s_left) = {CopyF.right + 1}
    /\ \E rc \in DOMAIN ret.ws.val : rc[1] > CopyF.bottom /\ rc[2] >= CopyEnd
    /\ \E rc \in DOMAIN arg.ws.val : rc[1] <= CopyF.bottom /\ rc[2] >= CopyEnd

\* the number a string of digits writes
RECURSIVE ParseInt(_)
ParseInt(s) ==
    IF s = <<>> THEN 0
    ELSE 10 * ParseInt(SubSeq(s, 1, Len(s) - 1))
         + (CHOOSE d \in 0..9 : DigitChars[d + 1] = s[Len(s)])

\* template t with each placeholder %<i>, i in 1..Len(vals), replaced by
\* vals[i]
RECURSIVE Substituted(_, _)
Substituted(t, vals) ==
    IF t = <<>> THEN <<>>
    ELSE IF Head(t) # "%" THEN <<Head(t)>> \o Substituted(Tail(t), vals)
    ELSE LET rest == Tail(t)
             nd == Max({n \in 0..Len(rest) : \A j \in 1..n : IsDigit(rest[j])})
             idx == ParseInt(SubSeq(rest, 1, nd))
         IN  IF nd > 0 /\ idx \in 1..Len(vals)
             THEN vals[idx] \o Substituted(SubSeq(rest, nd + 1, Len(rest)), vals)
             ELSE <<"%">> \o Substituted(rest, vals)

\* the number of placeholders of the template resolve_placeholders was given
Placeholders == Count(arg.template, "%")

\* the indices the placeholders of template t name
Indices(t) ==
    LET digits(n) == Max({d \in 0..(Len(t) - n) :
                             \A j \in 1..d : IsDigit(t[n + j])})
    IN  {ParseInt(SubSeq(t, n + 1, n + digits(n))) :
            n \in {q \in DOMAIN t : t[q] = "%" /\ digits(q) > 0}}

\* the template has one placeholder %<i> for each i in 1..k, and no other
OnePerIndex ==
    /\ Indices(arg.template) = 1..Placeholders
    /\ Cardinality(Indices(arg.template)) = Placeholders

\* C9: given a template with one placeholder %<i> for each i in 1..k and k
\* cells v1..vk, resolve_placeholders returns the template with each %<i>
\* replaced by vi; with fewer cells than placeholders it fails.
C9_EachPlaceholderReplaced ==
    (arg # Idle /\ arg.op = "resolve" /\ ret # Idle /\ OnePerIndex) =>
        IF Len(arg.cells) >= Placeholders
        THEN /\ ret.err = "ok"
             /\ ret.result
                   = Substituted(arg.template, SubSeq(arg.cells, 1, Placeholders))
        ELSE ret.err # "ok"

\* what resolve_placeholders does do: it fails exactly when there are fewer
\* cells than placeholders, and with fewer than ten placeholders and no %
\* in the cells it returns the template with each placeholder replaced
ResolvesBelowTen ==
    (arg # Idle /\ arg.op = "resolve" /\ ret # Idle) =>
        /\ ret.err = "ok" <=> Len(arg.cells) >= Placeholders
        /\ (/\ ret.err = "ok"
            /\ OnePerIndex
            /\ Placeholders < 10
            /\ \A n \in 1..Placeholders : ~Contains(arg.cells[n], "%"))
              => ret.result
                   = Substituted(arg.template, SubSeq(arg.cells, 1, Placeholders))

\* the markers of the marker column find_form was last given
Found == arg # Idle /\ arg.op = "find_form" /\ ret # Idle
TopAbsent == \A n \in DOMAIN arg.markers : arg.markers[n] # s_top
BottomAbsent == \A n \in DOMAIN arg.markers : arg.markers[n] # s_bottom

\* C11: on a worksheet whose marker column lacks %top, %bottom or both,
\* find_form fails with the not-found condition of the missing marker, that
\* of %top when %top is absent and that of %bottom when only %bottom is, and
\* with no other error.
C11_MissingMarkerNamed ==
    (Found /\ (TopAbsent \/ BottomAbsent)) =>
        ret.err = IF TopAbsent THEN "top_not_found" ELSE "bottom_not_found"

\* what find_form does do: with both markers absent, or with %bottom absent
\* and %left and %right in every %top row, it names the missing marker
MissingMarkerNamedWhenScanEnds ==
    Found =>
        /\ (TopAbsent /\ BottomAbsent) => ret.err = "top_not_found"
        /\ (~TopAbsent /\ BottomAbsent /\ arg.symbols = <<s_left, s_right>>)
              => ret.err = "bottom_not_found"
        /\ (TopAbsent /\ ~BottomAbsent) => ret.err = "unbound_local"

Named == arg # Idle /\ arg.op = "name" /\ ret # Idle

\* C12: to_snake returns its argument with an underscore inserted before
\* every upper-case letter but the first character, in lower case; no
\* character is lost.
C12_SnakeKeepsEveryCharacter ==
    Named =>
        ret.snake = Lower(<<Head(arg.name)>> \o UnderscoreUpper(Tail(arg.name)))

\* what to_snake does do: for a name whose first character is upper-case it
\* returns that string, and for any other name that string less its first
\* character
SnakeOfCapitalised ==
    Named =>
        LET whole == Lower(<<Head(arg.name)>> \o UnderscoreUpper(Tail(arg.name)))
        IN  ret.snake = IF IsUpper(Head(arg.name)) THEN whole ELSE Tail(whole)

\* name begins with the characters of prefix, compared one by one
BeginsWith(name, prefix) ==
    /\ Len(name) >= Len(prefix)
    /\ \A n \in DOMAIN prefix : name[n] = prefix[n]

\* C13: is_safe_action(name) is true exactly when name begins with "Get",
\* "Describe" or "List", compared with case.
C13_SafeIffReadOnlyPrefix ==
    Named =>
        (ret.safe <=> \/ BeginsWith(arg.name, <<"G","e","t">>)
                      \/ BeginsWith(arg.name, <<"D","e","s","c","r","i","b","e">>)
                      \/ BeginsWith(arg.name, <<"L","i","s","t">>))

\* a name that begins with "Describe" was found safe
C13_Witness ==
    /\ Named
    /\ arg.name = a_DescribeX
    /\ ret.safe

\* a name that begins with "describe" was found unsafe
C13_WitnessLowerCase ==
    /\ Named
    /\ arg.name = a_describeX
    /\ ~ret.safe

\* the worksheet passes that ran to their end: process_worksheet returned
PassesDone ==
    {p \in 1..Len(begun) : p < Len(begun) \/ pc \in {"loop", "done"}
                           \/ failure.kind = "save_error"}

\* the directives executed in pass p, in the order of their execution
PassTrace(p) == SelectSeq(trace, LAMBDA e : e.pass = p)

\* the directive rows of the worksheet of pass p that lie between its %top
\* and %bottom rows, and the n-th of them from the top
DirectiveRows(p) ==
    LET sheet == wb[begun[p]]
        f == find_form(sheet)
    IN  {r \in (f.top + 1)..(f.bottom - 1) :
            Value(sheet, r, 1) \in {s_call, s_output}}
NthRow(D, n) == CHOOSE r \in D : Cardinality({q \in D : q < r}) = n - 1

\* C14: in a worksheet pass with N argument sets that does not fail, the
\* directives executed are the directive rows between %top and %bottom, top
\* to bottom, for replica 1, then for replica 2, ..., then for replica N,
\* each once and no other row; every Call executed invoked one client
\* method.
C14_EachRowOncePerArgumentSet ==
    /\ \A p \in PassesDone :
          LET T == PassTrace(p)
              D == DirectiveRows(p)
              N == Len(sheets[p].args)
          IN  /\ Len(T) = N * Cardinality(D)
              /\ \A j \in 1..Len(T) :
                    /\ T[j].rep = ((j - 1) \div Cardinality(D)) + 1
                    /\ T[j].row = NthRow(D, ((j - 1) % Cardinality(D)) + 1)
                    /\ T[j].err = "ok"
    /\ ~WorksheetFailed =>
          Len(invoked) = Len(SelectSeq(trace, LAMBDA e : e.kind = "call"))

\* a pass with three argument sets over a worksheet that has a #call row
\* above %top and an #output row below %bottom ran to its end
C14_Witness ==
    \E p \in PassesDone :
        /\ Len(sheets[p].args) = 3
        /\ Cardinality(DirectiveRows(p)) = 3
        /\ Len(PassTrace(p)) = 9
        /\ \E r \in 1..max_row(wb[begun[p]]) :
              /\ Value(wb[begun[p]], r, 1) = s_call
              /\ r < find_form(wb[begun[p]]).top
        /\ \E r \in 1..max_row(wb[begun[p]]) :
              /\ Value(wb[begun[p]], r, 1) = s_output
              /\ r > find_form(wb[begun[p]]).bottom

\* C15: when a directive of a worksheet fails, nothing more happens: the
\* failed directive is the last one executed, no client method is invoked,
\* no client made and no cell written after it, and it is not run again.
C15_NothingAfterFailure ==
    /\ [](/\ \A j \in 1..(Len(trace) - 1) : trace[j].err = "ok"
          /\ (trace # <<>> /\ trace[Len(trace)].err # "ok") =>
                /\ pc = "failed"
                /\ failure = [sheet |-> trace[Len(trace)].sheet,
                              kind |-> trace[Len(trace)].err])
    /\ [][/\ WorksheetFailed =>
                UNCHANGED <<wb, clients, asked, invoked, trace, begun, saved>>
          /\ Len(invoked') <= Len(invoked) + 1
          /\ Len(trace') <= Len(trace) + 1]_vars

\* a Call of the first replica of the first worksheet failed in the client
\* method, with another replica and another worksheet still to come
C15_Witness ==
    /\ pc = "failed"
    /\ failure.kind = "request_rejected"
    /\ trace # <<>>
    /\ trace[Len(trace)].kind = "call"
    /\ trace[Len(trace)].rep < Len(args)
    /\ k < Len(sheets)
    /\ Len(invoked) = Len(SelectSeq(trace, LAMBDA e : e.kind = "call"))

\* the Calls executed so far in the pass under way
CallsOfPass ==
    {m \in DOMAIN trace : trace[m].kind = "call" /\ trace[m].pass = Len(begun)}

\* C16: the response register is null when the processing of a worksheet
\* starts, whatever the Calls of the worksheets before it returned: until
\* the worksheet's first Call the register is null, and an Output executed
\* before that Call reads null and, if it finds its path and destination,
\* writes "=NA()".
C16_RegisterNullAtWorksheetStart ==
    /\ (pc = "rows" /\ CallsOfPass = {}) => response = NoResponse
    /\ \A n \in Outputs : CallsBefore(n) = {} => trace[n].resp = NoResponse
    /\ (trace # <<>> /\ Len(trace) \in Outputs /\ CallsBefore(Len(trace)) = {})
          => LET e == trace[Len(trace)]
             IN  /\ e.err \in {"ok", "symbol_not_found", "path_not_found",
                               "path_syntax", "type_error"}
                 /\ e.err = "ok" =>
                       /\ Value(wb[e.sheet], e.row, e.col) = s_na
                       /\ Style(wb[e.sheet], e.row, e.col).number_format
                             = FORMAT_GENERAL

\* the first Output of the second worksheet wrote "=NA()" after a Call of
\* the first worksheet had returned a response and left its client cached
C16_Witness ==
    /\ trace # <<>>
    /\ Len(trace) \in Outputs
    /\ trace[Len(trace)].pass = 2
    /\ CallsBefore(Len(trace)) = {}
    /\ trace[Len(trace)].err = "ok"
    /\ Value(wb[trace[Len(trace)].sheet], trace[Len(trace)].row,
             trace[Len(trace)].col) = s_na
    /\ \E m \in DOMAIN trace :
          /\ trace[m].kind = "call"
          /\ trace[m].pass = 1
          /\ trace[m].resp # NoResponse
    /\ clients # EmptyMap

\* C17: the number of cells resolve_placeholders reads is the highest index
\* a placeholder of the template names; a template that names only %1, any
\* number of times, has one cell read.
C17_ConsumesHighestIndex ==
    (arg # Idle /\ arg.op = "resolve" /\ ret # Idle) =>
        ret.consumed = Max(Indices(arg.template))

\* what resolve_placeholders does do: it reads one cell for each "%" of
\* the template, up to the first cell that is empty
ConsumesOnePerPercent ==
    (arg # Idle /\ arg.op = "resolve" /\ ret # Idle) =>
        ret.consumed = IF Len(arg.cells) >= Placeholders THEN Placeholders
                       ELSE Len(arg.cells) + 1

\* C18: after copy_form(ws, N), in every replica n of 1..N the cell that
\* corresponds to a template cell, same row and n template widths to the
\* right, holds the token suffixed with n when the template cell is a %left
\* or %right cell of the %top row, and the template cell's value when that
\* is not a formula.
C18_ReplicaCellsCopied ==
    Copied =>
        \A n \in 1..arg.count, r \in CopyF.top..CopyF.bottom,
           c \in CopyF.left..CopyF.right :
           LET v == Value(arg.ws, r, c)
               d == Value(ret.ws, r, c + n * CopyW)
           IN  IF r = CopyF.top /\ v \in {s_left, s_right}
               THEN d = v \o IntStr(n)
               ELSE ~IsFormula(v) => d = v

\* two replicas were made over a worksheet that held something in a cell
\* of a replica whose template cell is empty, and that cell is empty now;
\* a template cell that is no marker is found again in the first replica
C18_Witness ==
    /\ Copied
    /\ arg.count = 2
    /\ Value(ret.ws, CopyF.top, CopyF.right + 1) = s_left \o <<"1">>
    /\ Value(ret.ws, CopyF.top, CopyF.right + 2 * CopyW) = s_right \o <<"2">>
    /\ \E n \in 1..2, r \in CopyF.top..CopyF.bottom,
          c \in CopyF.left..CopyF.right :
          /\ Value(arg.ws, r, c) = None
          /\ Value(arg.ws, r, c + n * CopyW) # None
          /\ Value(ret.ws, r, c + n * CopyW) = None
    /\ \E r \in CopyF.top..CopyF.bottom, c \in CopyF.left..CopyF.right :
          /\ Value(arg.ws, r, c) \notin {None, s_left, s_right}
          /\ Value(ret.ws, r, c + CopyW) = Value(arg.ws, r, c)

\* C19: process_worksheet leaves the template as it was: no step of the run
\* changes the value of a cell in the columns up to the template's %right
\* column.
C19_TemplateNeverModified ==
    [][\A nm \in DOMAIN wb :
          LET f == find_form(wb[nm])
          IN  f.err = "ok" =>
                 \A rc \in DOMAIN wb[nm].val \cup DOMAIN wb'[nm].val :
                    rc[2] <= f.right
                       => Value(wb'[nm], rc[1], rc[2]) = Value(wb[nm], rc[1], rc[2])]_vars

\* what process_worksheet does do: copy_form changes no cell in the columns
\* up to %right, and an Output writes right of the column in which the %top
\* row holds %left<i>
TemplateKeptByCopy ==
    [][(pc = "loop" /\ pc' # "loop") =>
          \A nm \in DOMAIN wb :
             LET f == find_form(wb[nm])
             IN  f.err = "ok" =>
                    \A rc \in DOMAIN wb[nm].val \cup DOMAIN wb'[nm].val :
                       rc[2] <= f.right
                          => Value(wb'[nm], rc[1], rc[2])
                                = Value(wb[nm], rc[1], rc[2])]_vars

\* the Output directives that wrote a cell
OutputsWritten == {n \in Outputs : trace[n].err = "ok"}

\* the first and the last column of replica n of the worksheet named nm
ReplicaFirst(nm, n) ==
    LET f == find_form(wb[nm])
    IN  f.right + 1 + (n - 1) * (f.right - f.left + 1)
ReplicaLast(nm, n) ==
    LET f == find_form(wb[nm])
    IN  f.right + n * (f.right - f.left + 1)

\* C20: the cell an Output directive executed for replica i writes lies in
\* the columns of replica i, not in the template, in another replica or
\* beyond the last replica.
C20_OutputInsideOwnReplica ==
    \A n \in OutputsWritten :
        /\ trace[n].col >= ReplicaFirst(trace[n].sheet, trace[n].rep)
        /\ trace[n].col <= ReplicaLast(trace[n].sheet, trace[n].rep)

\* what an Output does do: it writes the cell after the first #### cell of
\* its row at or after the column in which the %top row holds %left<i>
OutputAfterFirstMarker ==
    \A n \in OutputsWritten :
        LET e == trace[n]
            sheet == wb[e.sheet]
            f == find_form(sheet)
            l == find_column_symbol(sheet, s_left \o IntStr(e.rep), f.top, 1)
        IN  /\ l # 0
            /\ e.col = find_column_symbol(sheet, s_out, e.row, l) + 1
====
